---- MODULE Spec2Model ----
(***************************************************************************)
(* Bulking coach of diet_tracking: the body-log store, the diet-plan       *)
(* store, the floating-anchor analysis (check_stagnation) and the two      *)
(* operations that record a decision (apply_suggestion,                    *)
(* dismiss_suggestion), and the skinfold estimator of body fat.            *)
(*                                                                         *)
(* Numbers.  The program computes in binary floating point; the model      *)
(* computes exactly, in fixed point and in rationals <<n, d>> (d > 0):     *)
(*   weights            1/200 kg   (75.125 kg = 15025)                     *)
(*   calories, grams    1/20       (62.5 g = 1250, 3000.25 kcal = 60005)   *)
(*   weekly_rate        rational, kg per week                              *)
(*   reported rates     1/1000 kg  (round(x, 3))                           *)
(*   reported weeks     1/10       (round(x, 1))                           *)
(*   lengths, body fat  1/20 cm, 1/20 %                                    *)
(*   estimator          density 1/10^6 g/cm3, fat 1/100 %, skinfolds mm    *)
(* round(x, k) is Python's round: to the nearest, a tie to the even        *)
(* neighbour.  The inputs are multiples of 0.125 kg and of 0.25 kcal, so   *)
(* that the ties of the stored values are binary fractions, where the      *)
(* float round and the exact round agree.                                  *)
(***************************************************************************)
EXTENDS Integers, Sequences, FiniteSets, Bags, TLC

VARIABLES
    logs,     \* table body_logs: a bag of rows (the row id plays no part)
    plans,    \* table diet_plans: a sequence of rows, the id is the index
    now,      \* the clock read by datetime.now()
    last,     \* outcome of the last request: its kind, arguments and result
    handled,  \* history: the last apply/dismiss took the averages of the
              \* analysis right before it, which asked for an adjustment,
              \* and neither the logs nor the active plan changed since
    dirty,    \* history: the last apply/dismiss answered an analysis (handled)
              \* and since then a log of one of the two windows was inserted
              \* or deleted, or had its weight edited
    callers   \* clients whose requests overlap: for each its position, the
              \* suggestion it holds and the plan row its session has loaded

vars == <<logs, plans, now, last, handled, dirty, callers>>

----------------------------------------------------------------------------
\* Bounds of the model

MaxLogs == 3      \* rows of body_logs at any time
MaxPlans == 2     \* rows of diet_plans ever created
MaxClock == 2     \* apply/dismiss requests served
MaxCallers == 2   \* clients whose requests overlap

Users == {"default_user"}

\* a row of body_logs without measurements other than the weight
PlainLog(u, d, w) ==
    [ user_id |-> u, date |-> d, weight_kg |-> w,
      bio_body_fat_percent |-> {}, circ_waist |-> {},
      circ_arm_contracted_right |-> {}, circ_arm_relaxed_right |-> {},
      skinfolds |-> {} ]

\* Request bodies of the body-log endpoints (BodyLogCreate and the fields a
\* BodyLogUpdate sets), for the three specifications below:
\*  Spec          two dates 8 days apart, 75.125 and 75.625 kg
\*  SpecAnalysis  gaps of 6, 7, 8 and 14 days, 75.0, 75.125 and 75.5 kg
\*  SpecPlans     two dates, one weight
\*  SpecRounding  gaps of 8 and 16 days, 75.0 and 75.285 kg
\* The skinfolds field stands for the seven skinfold columns of a row.
GuardLogs == { PlainLog(u, d, w) : u \in Users, d \in {0, 8}, w \in {15025, 15125} }
GuardUpdates == { [date |-> d] : d \in {0, 8} } \cup
                { [weight_kg |-> w] : w \in {15025, 15125} }
WideLogs == { PlainLog(u, d, w) :
              u \in Users, d \in {0, 7, 8, 14}, w \in {15000, 15025, 15100} }
WideUpdates == { [date |-> d] : d \in {0, 7, 8, 14} } \cup
               { [weight_kg |-> w] : w \in {15000, 15025, 15100} }
RoundingLogs == { PlainLog(u, d, w) : u \in Users, d \in {0, 8, 16}, w \in {15000, 15057} }
FewLogs == { PlainLog(u, d, 15000) : u \in Users, d \in {0, 8} }

\* a row of body_logs with waist, contracted and relaxed right arm (1/20 cm)
\* and body fat (1/20 %), each None or Some(value)
MeasuredLog(u, d, w, waist, contracted, relaxed, fat) ==
    [ user_id |-> u, date |-> d, weight_kg |-> w,
      bio_body_fat_percent |-> fat, circ_waist |-> waist,
      circ_arm_contracted_right |-> contracted, circ_arm_relaxed_right |-> relaxed,
      skinfolds |-> {} ]

\* a row of body_logs with a bio-impedance body fat (1/20 %) and the seven
\* skinfold fields, each None or Some(value); the skinfolds are kept as
\* their sum in mm, None when one of the seven is missing
SkinfoldLog(u, d, w, fat, sum) ==
    [ user_id |-> u, date |-> d, weight_kg |-> w,
      bio_body_fat_percent |-> fat, circ_waist |-> {},
      circ_arm_contracted_right |-> {}, circ_arm_relaxed_right |-> {},
      skinfolds |-> sum ]

\* Request bodies for SpecBodyFat: three dates 8 days apart, so that the
\* oldest row lies in neither window; body fat missing, 0, 20.0 or 20.5 %;
\* skinfolds missing or summing to 200 mm (an estimate of 26.05 %)
BodyFatLogs ==
    { SkinfoldLog(u, d, 15000, fat, sum) :
        u \in Users, d \in {0, 8, 16}, fat \in {{}, {0}, {400}, {410}},
        sum \in {{}, {200}} }

\* Request bodies with measurements, for SpecCutting: a previous window on
\* day 0 (waist 80.0 cm, arm 0.1 cm) and a current one on day 8 (waist 80.5
\* or 81.0 cm, arm 0.2 or 0.25 cm, body fat 20.0 or 20.5 %). The differences
\* 0.5 and 0.1 of these values are exact in binary floating point.
CuttingLogs ==
    { MeasuredLog(u, 0, 15000, waist, arm, {}, {}) :
        u \in Users, waist \in {{}, {1600}}, arm \in {{}, {2}} }
    \cup
    { MeasuredLog(u, 8, 15000, waist, arm, {}, {}) :
        u \in Users, waist \in {{}, {1610}, {1620}}, arm \in {{}, {4}, {5}} }
    \cup
    { MeasuredLog(u, 8, 15000, {}, {}, {}, fat) : u \in Users, fat \in {{400}, {410}} }
    \cup
    { MeasuredLog(u, 8, w, {1620}, {4}, {}, {410}) : u \in Users, w \in {15000, 15100} }
    \cup
    { MeasuredLog(u, 8, 15100, {}, {}, {}, {}) : u \in Users }

\* Request bodies for SpecArm: the current window holds days 7 and 8, with
\* waist and contracted arm missing, 0 or positive and the relaxed arm
\* missing or positive; the previous window is one row on day 0
ArmLogs ==
    { MeasuredLog(u, 0, 15000, {1600}, {600}, {}, {}) : u \in Users }
    \cup
    { MeasuredLog(u, d, 15000, waist, contracted, relaxed, {}) :
        u \in Users, d \in {7, 8}, waist \in {{}, {0}, {1620}},
        contracted \in {{}, {0}, {610}}, relaxed \in {{}, {590}} }

\* request bodies of POST /diet/plans (DietPlanCreate)
PlanInputs ==
    { [ user_id |-> u, target_calories |-> 60005, target_protein |-> 3600,
        target_carbs |-> 8000, target_fat |-> 1660, is_active |-> a ] :
      u \in Users, a \in BOOLEAN }

\* request bodies of POST /diet/plans with low targets, for SpecLowPlan:
\* 400 or 2000 kcal, 50 or 400 g of carbs
LowPlanInputs ==
    { [ user_id |-> u, target_calories |-> kcal, target_protein |-> 3600,
        target_carbs |-> carbs, target_fat |-> 1660, is_active |-> TRUE ] :
      u \in Users, kcal \in {8000, 40000}, carbs \in {1000, 8000} }

\* request bodies of the body-log endpoints for SpecLowPlan: two dates 8 days
\* apart, 75.0, 75.5 and 76.0 kg, so that a gain of 0.5 kg and one of 1.0 kg
\* both come out as high_velocity, with different averages
LowPlanLogs == { PlainLog(u, d, w) : u \in Users, d \in {0, 8}, w \in {15000, 15100, 15200} }

\* request bodies of PUT /diet/plans/{plan_id}/targets (DietPlanUpdate): the
\* fields given are set, the others stay
TargetUpdates ==
    { [target_calories |-> 50000],
      [target_calories |-> 0, target_protein |-> 0, target_carbs |-> 0, target_fat |-> 0] }

\* request bodies of apply and dismiss that no analysis produced:
\* <<calorie_adjustment, carb_adjustment_g, w_curr, w_prev>>
FreeArgs == { <<5000, 1250, 15025, 15075>>, <<-5000, -1250, 15075, 15025>> }

----------------------------------------------------------------------------
\* Optional values (Python's None) and arithmetic

None == {}
Some(v) == {v}
Val(x) == CHOOSE v \in x : TRUE

Min(a, b) == IF a <= b THEN a ELSE b

\* n / d to the nearest integer, a tie to the even neighbour (d > 0)
RoundHalfEven(n, d) ==
    LET fl == n \div d
        r  == n % d
    IN  IF 2 * r < d THEN fl
        ELSE IF 2 * r > d THEN fl + 1
        ELSE IF fl % 2 = 0 THEN fl ELSE fl + 1

\* round(q, 2) of a weight q = <<n, d>> in 1/200 kg: a multiple of 0.01 kg
Round2(q) == 2 * RoundHalfEven(q[1], 2 * q[2])

\* round(v, 1) of calories or grams v in 1/20: a multiple of 0.1
Round1(v) == 2 * RoundHalfEven(v, 2)

\* a rate cut to 3 decimals instead of rounded
Round3_floor(q) == (1000 * q[1]) \div q[2]

\* round(q, 3) of a rate q in kg: thousandths
Round3(q) == RoundHalfEven(1000 * q[1], q[2])

\* round(q, 1) of a number of weeks q: tenths
RoundWeeks(q) == RoundHalfEven(10 * q[1], q[2])

RatLess(p, q) == p[1] * q[2] < q[1] * p[2]
RatLeq(p, q) == p[1] * q[2] <= q[1] * p[2]
RatMax(p, q) == IF RatLess(p, q) THEN q ELSE p

RECURSIVE SumWeights(_)
SumWeights(s) ==
    IF s = <<>> THEN 0 ELSE Head(s).weight_kg + SumWeights(Tail(s))

\* statistics.mean of the weights of a non-empty list of rows, in 1/200 kg
mean(s) == <<SumWeights(s), Len(s)>>

----------------------------------------------------------------------------
\* Thresholds of the coach

WINDOW_DAYS == 6
FETCH_LIMIT == 200
WAIST_GROWTH_THRESHOLD_CM == 10      \* 0.5 cm, in 1/20 cm
ARM_GROWTH_THRESHOLD_CM == 2         \* 0.1 cm, in 1/20 cm
BODY_FAT_CEILING_PERCENT == 400      \* 20.0 %, in 1/20 %
RATE_MIN_FLOOR == <<1, 8>>       \* 0.125 kg/week
RATE_MAX_CEILING == <<3, 8>>     \* 0.375 kg/week

AdjustStates == {"weight_loss", "slow_gain", "high_velocity"}

----------------------------------------------------------------------------
\* The store

UserLogs(user_id) ==
    LET rows == {r \in BagToSet(logs) : r.user_id = user_id}
    IN  [r \in rows |-> CopiesIn(r, logs)]

MaxDate(b) == CHOOSE d \in {r.date : r \in BagToSet(b)} :
                  \A r \in BagToSet(b) : r.date <= d

\* every list the query ORDER BY date DESC may return for the bag b: rows
\* that share a date come in any order
RECURSIVE DateDescOrders(_)
DateDescOrders(b) ==
    IF BagToSet(b) = {} THEN {<<>>}
    ELSE UNION { { <<x>> \o s : s \in DateDescOrders(b (-) SetToBag({x})) } :
                 x \in {y \in BagToSet(b) : y.date = MaxDate(b)} }

\* select(BodyLog).where(user_id).order_by(date.desc()).limit(200)
FetchLogs(user_id) ==
    { SubSeq(s, 1, Min(Len(s), FETCH_LIMIT)) : s \in DateDescOrders(UserLogs(user_id)) }

\* the ids of the active plans of the user
ActivePlanIds(user_id) ==
    {i \in 1..Len(plans) : plans[i].user_id = user_id /\ plans[i].is_active}

\* the newest log date of the user, None without logs
LatestLogDate(user_id) ==
    IF BagToSet(UserLogs(user_id)) = {} THEN None
    ELSE Some(MaxDate(UserLogs(user_id)))

----------------------------------------------------------------------------
\* _classify_weekly_rate: <<state, calorie_adjustment, carb_adjustment>>,
\* the adjustments in 1/20 kcal and 1/20 g; the message is the state's own

\* _classify_weekly_rate with 'weekly_rate <= RATE_MIN_FLOOR'
_classify_weekly_rate_floor_inclusive(rate) ==
    IF RatLess(rate, <<0, 1>>) THEN <<"weight_loss", 10000, 2500>>
    ELSE IF RatLeq(rate, RATE_MIN_FLOOR) THEN <<"slow_gain", 5000, 1250>>
    ELSE IF RatLeq(rate, RATE_MAX_CEILING) THEN <<"optimal", 0, 0>>
    ELSE <<"high_velocity", -5000, -1250>>

_classify_weekly_rate(rate) ==
    IF RatLess(rate, <<0, 1>>) THEN <<"weight_loss", 10000, 2500>>
    ELSE IF RatLess(rate, RATE_MIN_FLOOR) THEN <<"slow_gain", 5000, 1250>>
    ELSE IF RatLeq(rate, RATE_MAX_CEILING) THEN <<"optimal", 0, 0>>
    ELSE <<"high_velocity", -5000, -1250>>

_empty_suggestion_fields ==
    [ suggested_calorie_adjustment |-> None,
      suggested_carb_adjustment_g  |-> None,
      new_target_calories          |-> None,
      new_target_carbs             |-> None,
      current_carbs_g              |-> None,
      current_carbs_per_kg         |-> None,
      suggested_carbs_g            |-> None,
      suggested_carbs_per_kg       |-> None,
      current_calories             |-> None,
      suggested_calories           |-> None ]

SuggestionFields == DOMAIN _empty_suggestion_fields

----------------------------------------------------------------------------
\* The body-composition estimator (services/body_fat.py). Skinfolds are whole
\* millimetres; the density is kept in 1/10^6 g/cm3 (round(x, 6)) and the
\* fat percentage in 1/100 % (round(x, 2)).

MaxSkinfold == 101   \* the thickest skinfold of a site, in mm

\* the thickness of one site and the ages the estimator is applied to: 25 is
\* the default, 297 brings the density below 0.97, 3997 below 0. For these
\* values no density falls half-way between two 6-decimal numbers, where
\* the float round could take either neighbour.
SkinfoldValues == {0, 2, 8, MaxSkinfold}
Ages == {25, 297, 3997}

\* round(body_density, 6) of 1.112 - 0.00043499 s + 0.00000055 s^2
\* - 0.00028826 age, the polynomial taken in 1/10^8
calculate_body_density_pollock_7(sum_of_skinfolds_mm, age_years) ==
    LET s == sum_of_skinfolds_mm
        body_density == 111200000 - 43499 * s + 55 * s * s - 28826 * age_years
    IN  RoundHalfEven(body_density, 100)

\* round(p, 2) of a percentage p = <<n, d>> with 0 <= p (d > 0), in 1/100
RoundPercent(p) ==
    100 * (p[1] \div p[2]) + RoundHalfEven(100 * (p[1] % p[2]), p[2])

\* the Siri equation returned as computed, without the clamp to [0, 60]
body_density_to_fat_percent_unclamped(body_density) ==
    IF body_density <= 0 THEN 0
    ELSE LET fat_percent == <<495000000 - 450 * body_density, body_density>>
         IN  IF fat_percent[1] >= 0 THEN RoundPercent(fat_percent)
             ELSE -RoundPercent(<<-fat_percent[1], fat_percent[2]>>)

\* the Siri equation, 495 / density - 450, clamped to [0, 60] and rounded
body_density_to_fat_percent(body_density) ==
    IF body_density <= 0 THEN 0
    ELSE LET fat_percent == <<495000000 - 450 * body_density, body_density>>
             clamped == IF RatLess(<<60, 1>>, fat_percent) THEN <<60, 1>>
                        ELSE IF RatLess(fat_percent, <<0, 1>>) THEN <<0, 1>>
                        ELSE fat_percent
         IN  RoundPercent(clamped)

\* the result of the estimator for seven skinfolds and an age
calculate_body_fat_from_skinfolds(chest, axillary, triceps, subscapular, suprailiac, abdominal, thigh, age_years) ==
    LET sum_of_skinfolds == chest + axillary + triceps + subscapular
                            + suprailiac + abdominal + thigh
        body_density == calculate_body_density_pollock_7(sum_of_skinfolds, age_years)
        body_fat_percent == body_density_to_fat_percent(body_density)
    IN  [ op               |-> "estimate",
          status           |-> "ok",
          age_years        |-> age_years,
          sum_of_skinfolds |-> sum_of_skinfolds,
          body_density     |-> body_density,
          body_fat_percent |-> body_fat_percent ]

\* the skinfolds and the age of a call of the estimator
EstimatorInputs ==
    [ op : {"skinfolds"},
      chest : SkinfoldValues, axillary : SkinfoldValues, triceps : SkinfoldValues,
      subscapular : SkinfoldValues, suprailiac : SkinfoldValues,
      abdominal : SkinfoldValues, thigh : SkinfoldValues, age_years : Ages ]

\* a call of the estimator, as POST /body-logs/ makes it for a row with all
\* seven skinfolds
estimate ==
    /\ last.op = "skinfolds"
    /\ last' = calculate_body_fat_from_skinfolds(
                   last.chest, last.axillary, last.triceps, last.subscapular,
                   last.suprailiac, last.abdominal, last.thigh, last.age_years)
    /\ UNCHANGED <<logs, plans, now, handled, dirty, callers>>

----------------------------------------------------------------------------
\* check_stagnation, step by step

\* prev_anchor_index with 'log.date <= curr_window_start'
prev_anchor_index_inclusive(all_logs, curr_window_start) ==
    IF \E i \in 1..Len(all_logs) : all_logs[i].date <= curr_window_start
    THEN CHOOSE i \in 1..Len(all_logs) :
            /\ all_logs[i].date <= curr_window_start
            /\ \A j \in 1..(i - 1) : ~(all_logs[j].date <= curr_window_start)
    ELSE 0

\* prev_anchor_index taking the first row dated before the anchor itself
prev_anchor_index_before_anchor(all_logs, curr_window_start) ==
    LET t_curr == curr_window_start + WINDOW_DAYS
    IN  IF \E i \in 1..Len(all_logs) : all_logs[i].date < t_curr
        THEN CHOOSE i \in 1..Len(all_logs) :
                /\ all_logs[i].date < t_curr
                /\ \A j \in 1..(i - 1) : ~(all_logs[j].date < t_curr)
        ELSE 0

\* prev_anchor_index taking the last row dated before the current window,
\* the oldest one
prev_anchor_index_oldest(all_logs, curr_window_start) ==
    IF \E i \in 1..Len(all_logs) : all_logs[i].date < curr_window_start
    THEN CHOOSE i \in 1..Len(all_logs) :
            /\ all_logs[i].date < curr_window_start
            /\ \A j \in (i + 1)..Len(all_logs) : all_logs[j].date = all_logs[i].date
    ELSE 0

\* A3: index in all_logs of the first row dated strictly before the current
\* window, 0 if there is none
prev_anchor_index(all_logs, curr_window_start) ==
    IF \E i \in 1..Len(all_logs) : all_logs[i].date < curr_window_start
    THEN CHOOSE i \in 1..Len(all_logs) :
            /\ all_logs[i].date < curr_window_start
            /\ \A j \in 1..(i - 1) : ~(all_logs[j].date < curr_window_start)
    ELSE 0

\* window_logs leaving out the rows dated on the first day of the window
window_logs_open(all_logs, start, anchor) ==
    SelectSeq(all_logs, LAMBDA log : start < log.date /\ log.date <= anchor)

\* window_logs keeping, when some row of the window carries a waist value,
\* only the rows that carry one
window_logs_measured(all_logs, start, anchor) ==
    LET rows == SelectSeq(all_logs, LAMBDA log : start <= log.date /\ log.date <= anchor)
        measured == SelectSeq(rows, LAMBDA log : log.circ_waist # None)
    IN  IF measured # <<>> THEN measured ELSE rows

\* the rows of all_logs dated in [start, anchor]
window_logs(all_logs, start, anchor) ==
    SelectSeq(all_logs, LAMBDA log : start <= log.date /\ log.date <= anchor)

\* weeks_elapsed counted from the start of the current window, not floored
weeks_elapsed_between_windows(days_between) == <<days_between - WINDOW_DAYS, 7>>

\* B: weeks_elapsed = max(days_between / 7, 1.0)
weeks_elapsed(days_between) == RatMax(<<days_between, 7>>, <<1, 1>>)

\* B: weekly_rate = (w_curr - w_prev) / weeks_elapsed, in kg per week
weekly_rate(w_curr, w_prev, weeks) ==
    << (w_curr[1] * w_prev[2] - w_prev[1] * w_curr[2]) * weeks[2],
       200 * w_curr[2] * w_prev[2] * weeks[1] >>

\* monthly_projection taken from the rate as reported, round(weekly_rate, 3) * 4
monthly_projection_of_reported(rate) == <<4 * Round3(rate), 1000>>

\* B: monthly_projection = weekly_rate * 4
monthly_projection(rate) == <<4 * rate[1], rate[2]>>

\* a guard that never finds the data unchanged
already_adjusted_never(plan, w_curr, w_prev) == FALSE

\* already_adjusted comparing the stored pair with the averages as computed,
\* the round of lines 170-171 left out
already_adjusted_unrounded(plan, w_curr, w_prev) ==
    /\ plan # None
    /\ Val(plan).last_coach_adjustment_at # None
    /\ Val(plan).last_coach_w_curr # None
    /\ Val(plan).last_coach_w_prev # None
    /\ w_curr[1] = Val(Val(plan).last_coach_w_curr) * w_curr[2]
    /\ w_prev[1] = Val(Val(plan).last_coach_w_prev) * w_prev[2]

\* already_adjusted comparing the current average only
already_adjusted_curr_only(plan, w_curr, w_prev) ==
    /\ plan # None
    /\ Val(plan).last_coach_adjustment_at # None
    /\ Val(plan).last_coach_w_curr # None
    /\ Val(plan).last_coach_w_prev # None
    /\ Round2(w_curr) = Round2(<<Val(Val(plan).last_coach_w_curr), 1>>)

\* the fingerprint guard: plan is None or Some(row)
already_adjusted(plan, w_curr, w_prev) ==
    /\ plan # None
    /\ Val(plan).last_coach_adjustment_at # None
    /\ Val(plan).last_coach_w_curr # None
    /\ Val(plan).last_coach_w_prev # None
    /\ Round2(w_curr) = Round2(<<Val(Val(plan).last_coach_w_curr), 1>>)
    /\ Round2(w_prev) = Round2(<<Val(Val(plan).last_coach_w_prev), 1>>)

\* a or b on optional numbers: a unless it is None or 0
PyOr(a, b) == IF a # None /\ Val(a) # 0 THEN a ELSE b

arm_val(log) == PyOr(log.circ_arm_contracted_right, log.circ_arm_relaxed_right)

\* first non-None waist among the rows of all_logs dated in [lo, hi]
first_waist(all_logs, lo, hi) ==
    LET hit(i) == /\ lo <= all_logs[i].date /\ all_logs[i].date <= hi
                  /\ all_logs[i].circ_waist # None
        idx == {i \in 1..Len(all_logs) : hit(i)}
    IN  IF idx = {} THEN None
        ELSE all_logs[CHOOSE i \in idx : \A j \in idx : i <= j].circ_waist

\* first non-None arm value among the rows of all_logs dated in [lo, hi]
first_arm(all_logs, lo, hi) ==
    LET hit(i) == /\ lo <= all_logs[i].date /\ all_logs[i].date <= hi
                  /\ arm_val(all_logs[i]) # None
        idx == {i \in 1..Len(all_logs) : hit(i)}
    IN  IF idx = {} THEN None
        ELSE arm_val(all_logs[CHOOSE i \in idx : \A j \in idx : i <= j])

\* <<waist_change, arm_change>>, each None or Some(cm in 1/20)
_get_measurement_changes(all_logs, curr_window_start, prev_window_start, t_prev) ==
    LET t_max       == all_logs[1].date
        curr_waist  == first_waist(all_logs, curr_window_start, t_max)
        curr_arm    == first_arm(all_logs, curr_window_start, t_max)
        prev_waist  == first_waist(all_logs, prev_window_start, t_prev)
        prev_arm    == first_arm(all_logs, prev_window_start, t_prev)
    IN  << IF curr_waist # None /\ prev_waist # None
           THEN Some(Val(curr_waist) - Val(prev_waist)) ELSE None,
           IF curr_arm # None /\ prev_arm # None
           THEN Some(Val(curr_arm) - Val(prev_arm)) ELSE None >>

\* _get_latest_body_fat falling back, for a row without a bio-impedance
\* value, to the estimate from its skinfolds (as the dashboard does), in 1/20 %
_get_latest_body_fat_or_skinfolds(all_logs) ==
    LET fat(log) ==
            IF log.bio_body_fat_percent # None THEN log.bio_body_fat_percent
            ELSE IF log.skinfolds # None
            THEN Some(body_density_to_fat_percent(
                          calculate_body_density_pollock_7(Val(log.skinfolds), 25)) \div 5)
            ELSE None
        idx == {i \in 1..Len(all_logs) : fat(all_logs[i]) # None}
    IN  IF idx = {} THEN None
        ELSE fat(all_logs[CHOOSE i \in idx : \A j \in idx : i <= j])

\* _get_latest_body_fat looking only at the rows of the current window
_get_latest_body_fat_current_window(all_logs) ==
    LET idx == {i \in 1..Len(all_logs) :
                   /\ all_logs[i].bio_body_fat_percent # None
                   /\ all_logs[i].date >= all_logs[1].date - WINDOW_DAYS}
    IN  IF idx = {} THEN None
        ELSE all_logs[CHOOSE i \in idx : \A j \in idx : i <= j].bio_body_fat_percent

_get_latest_body_fat(all_logs) ==
    LET idx == {i \in 1..Len(all_logs) : all_logs[i].bio_body_fat_percent # None}
    IN  IF idx = {} THEN None
        ELSE all_logs[CHOOSE i \in idx : \A j \in idx : i <= j].bio_body_fat_percent

\* round(carbs / anchor_weight, 2) if anchor_weight > 0 else 0, in 1/100 g/kg
\* (carbs in 1/20 g, the weight a rational in 1/200 kg)
carbs_per_kg(carbs, anchor_weight) ==
    IF anchor_weight[1] > 0
    THEN RoundHalfEven(1000 * carbs * anchor_weight[2], anchor_weight[1])
    ELSE 0

\* the body-fat check made only when the waist-vs-arm check did not fire
cutting_reasons_first_only(waist_change, arm_change, current_body_fat) ==
    IF /\ waist_change # None /\ arm_change # None
       /\ Val(waist_change) > WAIST_GROWTH_THRESHOLD_CM
       /\ Val(arm_change) <= ARM_GROWTH_THRESHOLD_CM
    THEN <<"waist_vs_arm">>
    ELSE IF current_body_fat # None /\ Val(current_body_fat) > BODY_FAT_CEILING_PERCENT
    THEN <<"body_fat_ceiling">>
    ELSE <<>>

\* the waist-vs-arm check with 'waist_change >= WAIST_GROWTH_THRESHOLD_CM'
cutting_reasons_waist_inclusive(waist_change, arm_change, current_body_fat) ==
    (IF /\ waist_change # None /\ arm_change # None
        /\ Val(waist_change) >= WAIST_GROWTH_THRESHOLD_CM
        /\ Val(arm_change) <= ARM_GROWTH_THRESHOLD_CM
     THEN <<"waist_vs_arm">> ELSE <<>>)
    \o
    (IF current_body_fat # None /\ Val(current_body_fat) > BODY_FAT_CEILING_PERCENT
     THEN <<"body_fat_ceiling">> ELSE <<>>)

\* D and E: the reasons to suggest cutting, in the order they are appended
cutting_reasons(waist_change, arm_change, current_body_fat) ==
    (IF /\ waist_change # None /\ arm_change # None
        /\ Val(waist_change) > WAIST_GROWTH_THRESHOLD_CM
        /\ Val(arm_change) <= ARM_GROWTH_THRESHOLD_CM
     THEN <<"waist_vs_arm">> ELSE <<>>)
    \o
    (IF current_body_fat # None /\ Val(current_body_fat) > BODY_FAT_CEILING_PERCENT
     THEN <<"body_fat_ceiling">> ELSE <<>>)

\* the result of a successful analysis over the fetched rows all_logs, the
\* previous anchor at index prev_idx, with the active plan (None or Some(row))
build_result(all_logs, prev_idx, active_plan) ==
    LET anchor_log        == all_logs[1]
        t_curr            == anchor_log.date
        curr_window_start == t_curr - WINDOW_DAYS
        w_curr            == mean(window_logs(all_logs, curr_window_start, t_curr))
        t_prev            == all_logs[prev_idx].date
        prev_window_start == t_prev - WINDOW_DAYS
        w_prev            == mean(window_logs(all_logs, prev_window_start, t_prev))
        days_between      == t_curr - t_prev
        weeks             == weeks_elapsed(days_between)
        rate              == weekly_rate(w_curr, w_prev, weeks)
        monthly           == monthly_projection(rate)
        adjusted          == already_adjusted(active_plan, w_curr, w_prev)
        cls               == _classify_weekly_rate(rate)
        state             == cls[1]
        calorie_adjustment == cls[2]
        carb_adjustment   == cls[3]
        changes           == _get_measurement_changes(
                                 all_logs, curr_window_start, prev_window_start, t_prev)
        current_body_fat  == _get_latest_body_fat(all_logs)
        reasons           == cutting_reasons(changes[1], changes[2], current_body_fat)
        current_calories  == IF active_plan # None
                             THEN Val(active_plan).target_calories ELSE 0
        current_carbs_total == IF active_plan # None
                               THEN Val(active_plan).target_carbs ELSE 0
        suggested_calories == Round1(current_calories + calorie_adjustment)
        suggested_carbs_total == Round1(current_carbs_total + carb_adjustment)
        needs_adjustment  == state \in AdjustStates
        suppressed        == adjusted /\ state \in AdjustStates
        populated         == ~suppressed /\ needs_adjustment /\ calorie_adjustment # 0
        base ==
          [ op                       |-> "analyze",
            status                   |-> "ok",
            current_week_avg_weight  |-> Round2(w_curr),
            previous_week_avg_weight |-> Round2(w_prev),
            weight_change_kg         |->
                Round2(<<w_curr[1] * w_prev[2] - w_prev[1] * w_curr[2],
                         w_curr[2] * w_prev[2]>>),
            anchor_date              |-> t_curr,
            anchor_weight_kg         |-> Round2(<<anchor_log.weight_kg, 1>>),
            weekly_rate              |-> Round3(rate),
            monthly_projection       |-> Round3(monthly),
            weeks_elapsed            |-> RoundWeeks(weeks),
            analysis_state           |-> state,
            suggest_cutting          |-> reasons # <<>>,
            cutting_reasons          |-> reasons,
            current_body_fat_percent |->
                IF current_body_fat # None
                THEN Some(Round1(Val(current_body_fat))) ELSE None,
            waist_change_cm          |->
                IF changes[1] # None THEN Some(Round1(Val(changes[1]))) ELSE None,
            arm_change_cm            |->
                IF changes[2] # None THEN Some(Round1(Val(changes[2]))) ELSE None,
            is_stagnating            |-> IF suppressed THEN FALSE ELSE needs_adjustment,
            message                  |-> IF suppressed THEN "already_adjusted" ELSE state,
            \* the values before the reporting round, kept to state the claims
            raw_waist_change         |-> changes[1],
            raw_arm_change           |-> changes[2],
            raw_body_fat             |-> current_body_fat,
            raw_w_curr               |-> w_curr,
            raw_w_prev               |-> w_prev,
            raw_weeks_elapsed        |-> weeks,
            raw_weekly_rate          |-> rate,
            raw_classification       |-> cls,
            t_prev                   |-> t_prev ]
        suggestion ==
          IF populated
          THEN [ suggested_calorie_adjustment |-> Some(Round1(calorie_adjustment)),
                 suggested_carb_adjustment_g  |-> Some(Round1(carb_adjustment)),
                 current_carbs_g              |-> Some(Round1(current_carbs_total)),
                 current_carbs_per_kg         |->
                     Some(carbs_per_kg(current_carbs_total, w_curr)),
                 suggested_carbs_g            |-> Some(suggested_carbs_total),
                 suggested_carbs_per_kg       |->
                     Some(carbs_per_kg(suggested_carbs_total, w_curr)),
                 current_calories             |-> Some(Round1(current_calories)),
                 suggested_calories           |-> Some(suggested_calories),
                 new_target_calories          |->
                     IF active_plan # None THEN Some(suggested_calories) ELSE None,
                 new_target_carbs             |->
                     IF active_plan # None THEN Some(suggested_carbs_total) ELSE None ]
          ELSE _empty_suggestion_fields
    IN  base @@ suggestion

\* check_stagnation reading the fingerprint and the targets from the newest
\* plan row that carries a fingerprint, active or not, when there is one
check_stagnation_any_plan(all_logs, active_ids) ==
    IF Len(all_logs) < 2
    THEN [op |-> "analyze", status |-> "InsufficientData"]
    ELSE LET prev_idx == prev_anchor_index(all_logs, all_logs[1].date - WINDOW_DAYS)
             marked == {i \in 1..Len(plans) : plans[i].last_coach_adjustment_at # None}
         IN  IF prev_idx = 0
             THEN [op |-> "analyze", status |-> "InsufficientPriorData"]
             ELSE IF Cardinality(active_ids) > 1
             THEN [op |-> "analyze", status |-> "MultipleResultsFound"]
             ELSE build_result(
                      all_logs, prev_idx,
                      IF marked # {}
                      THEN Some(plans[CHOOSE i \in marked : \A j \in marked : j <= i])
                      ELSE IF active_ids = {} THEN None
                      ELSE Some(plans[CHOOSE i \in active_ids : TRUE]))

\* check_stagnation over one list the log query may return and the set of
\* ids the active-plan query returns
check_stagnation(all_logs, active_ids) ==
    IF Len(all_logs) < 2
    THEN [op |-> "analyze", status |-> "InsufficientData"]
    ELSE LET prev_idx == prev_anchor_index(all_logs, all_logs[1].date - WINDOW_DAYS)
         IN  IF prev_idx = 0
             THEN [op |-> "analyze", status |-> "InsufficientPriorData"]
             ELSE IF Cardinality(active_ids) > 1
             THEN [op |-> "analyze", status |-> "MultipleResultsFound"]
             ELSE build_result(
                      all_logs, prev_idx,
                      IF active_ids = {} THEN None
                      ELSE Some(plans[CHOOSE i \in active_ids : TRUE]))

----------------------------------------------------------------------------
\* The windows of a bag of rows, to follow which rows a mutation touches

\* TRUE iff a row dated d lies in the current or in the previous window of b
InWindows(b, d) ==
    IF BagToSet(b) = {} THEN FALSE
    ELSE LET t_curr == MaxDate(b)
             older  == {r.date : r \in {x \in BagToSet(b) : x.date < t_curr - WINDOW_DAYS}}
         IN  \/ (t_curr - WINDOW_DAYS <= d /\ d <= t_curr)
             \/ /\ older # {}
                /\ LET t_prev == CHOOSE x \in older : \A y \in older : y <= x
                   IN  t_prev - WINDOW_DAYS <= d /\ d <= t_prev

\* a row with the fields of the update set (setattr for each field given)
Patched(row, update) ==
    [f \in DOMAIN row |-> IF f \in DOMAIN update THEN update[f] ELSE row[f]]

----------------------------------------------------------------------------
\* Requests

\* a new row of diet_plans
NewPlan(plan) ==
    [ user_id                  |-> plan.user_id,
      target_calories          |-> plan.target_calories,
      target_protein           |-> plan.target_protein,
      target_carbs             |-> plan.target_carbs,
      target_fat               |-> plan.target_fat,
      is_active                |-> plan.is_active,
      last_coach_adjustment_at |-> None,
      last_coach_anchor_date   |-> None,
      last_coach_w_curr        |-> None,
      last_coach_w_prev        |-> None ]

\* POST /body-logs/
create_body_log(inputs) ==
    \E log \in inputs :
        /\ BagCardinality(logs) < MaxLogs
        /\ logs' = logs (+) SetToBag({log})
        /\ last' = [op |-> "create_body_log"]
        /\ handled' = FALSE
        /\ dirty' = (dirty \/ (handled /\ InWindows(logs', log.date)))
        /\ UNCHANGED <<plans, now, callers>>

\* PUT /body-logs/{log_id} erasing the fingerprint of the user's active
\* plan when it changes a row
update_body_log_clearing(updates) ==
    \E log \in BagToSet(logs), update \in updates :
        /\ logs' = (logs (-) SetToBag({log})) (+) SetToBag({Patched(log, update)})
        /\ plans' = [i \in 1..Len(plans) |->
                       IF plans[i].is_active /\ plans[i].user_id = log.user_id
                       THEN [plans[i] EXCEPT !.last_coach_adjustment_at = None,
                                             !.last_coach_w_curr = None,
                                             !.last_coach_w_prev = None]
                       ELSE plans[i]]
        /\ last' = [op |-> "update_body_log"]
        /\ handled' = FALSE
        /\ dirty' = (dirty \/ (/\ handled
                                /\ Patched(log, update).weight_kg # log.weight_kg
                                /\ InWindows(logs, log.date)))
        /\ UNCHANGED <<now, callers>>

\* PUT /body-logs/{log_id}, for a row that exists
update_body_log(updates) ==
    \E log \in BagToSet(logs), update \in updates :
        /\ logs' = (logs (-) SetToBag({log})) (+) SetToBag({Patched(log, update)})
        /\ last' = [op |-> "update_body_log"]
        /\ handled' = FALSE
        /\ dirty' = (dirty \/ (/\ handled
                                /\ Patched(log, update).weight_kg # log.weight_kg
                                /\ InWindows(logs, log.date)))
        /\ UNCHANGED <<plans, now, callers>>

\* DELETE /body-logs/{log_id}, for a row that exists
delete_body_log ==
    \E log \in BagToSet(logs) :
        /\ logs' = logs (-) SetToBag({log})
        /\ last' = [op |-> "delete_body_log"]
        /\ handled' = FALSE
        /\ dirty' = (dirty \/ (handled /\ InWindows(logs, log.date)))
        /\ UNCHANGED <<plans, now, callers>>

\* POST /diet/plans
create_diet_plan ==
    \E plan \in PlanInputs :
        /\ Len(plans) < MaxPlans
        /\ LET deactivated ==
                 [i \in 1..Len(plans) |->
                    IF /\ plan.is_active
                       /\ plans[i].user_id = plan.user_id
                       /\ plans[i].is_active
                    THEN [plans[i] EXCEPT !.is_active = FALSE]
                    ELSE plans[i]]
           IN  plans' = Append(deactivated, NewPlan(plan))
        /\ last' = [op |-> "create_diet_plan"]
        /\ handled' = (handled /\ ~plan.is_active)
        /\ UNCHANGED <<logs, now, dirty, callers>>

\* PUT /diet/plans/{plan_id}/targets
update_diet_plan_targets ==
    \E plan_id \in 1..MaxPlans, update \in TargetUpdates :
        IF plan_id \notin 1..Len(plans)
        THEN /\ last' = [op |-> "update_diet_plan_targets", status |-> "NotFound"]
             /\ UNCHANGED <<logs, plans, now, handled, dirty, callers>>
        ELSE /\ plans' = [plans EXCEPT ![plan_id] = Patched(@, update)]
             /\ last' = [op |-> "update_diet_plan_targets", status |-> "ok",
                         plan_id |-> plan_id]
             /\ handled' = (handled /\ ~plans[plan_id].is_active)
             /\ UNCHANGED <<logs, now, dirty, callers>>

\* check_stagnation recording the averages it computed in the active plan
analyze_recording ==
    \E user_id \in Users :
    \E all_logs \in FetchLogs(user_id) :
        LET result == check_stagnation(all_logs, ActivePlanIds(user_id))
            ids    == ActivePlanIds(user_id)
        IN  /\ last' = result
            /\ plans' = IF result.status = "ok" /\ ids # {}
                        THEN [plans EXCEPT ![CHOOSE i \in ids : TRUE] =
                                [@ EXCEPT
                                   !.last_coach_adjustment_at = Some(now),
                                   !.last_coach_w_curr = Some(result.current_week_avg_weight),
                                   !.last_coach_w_prev = Some(result.previous_week_avg_weight)]]
                        ELSE plans
            /\ UNCHANGED <<logs, now, handled, dirty, callers>>

\* POST /coach/check-stagnation
analyze ==
    \E user_id \in Users :
    \E all_logs \in FetchLogs(user_id) :
        /\ last' = check_stagnation(all_logs, ActivePlanIds(user_id))
        /\ UNCHANGED <<logs, plans, now, handled, dirty, callers>>

\* the arguments a client may send to apply or dismiss: the averages and the
\* deltas of the analysis it has just read, or values of its own
RequestArgs ==
    FreeArgs \cup
    ( IF last.op = "analyze" /\ last.status = "ok"
      THEN { << IF last.suggested_calorie_adjustment # None
                THEN Val(last.suggested_calorie_adjustment) ELSE 0,
                IF last.suggested_carb_adjustment_g # None
                THEN Val(last.suggested_carb_adjustment_g) ELSE 0,
                last.current_week_avg_weight,
                last.previous_week_avg_weight >> }
      ELSE {} )

\* TRUE iff the arguments carry the averages of the analysis just read, and
\* that analysis found a state that asks for an adjustment
AnswersAnalysis(w_curr, w_prev) ==
    /\ last.op = "analyze" /\ last.status = "ok"
    /\ last.analysis_state \in AdjustStates
    /\ w_curr = last.current_week_avg_weight
    /\ w_prev = last.previous_week_avg_weight

\* apply_suggestion rounding the new targets half up instead of half to even
applied_half_up(plan, calorie_adjustment, carb_adjustment_g, w_curr, w_prev, at, anchor_date) ==
    [ plan EXCEPT
        !.target_calories = 2 * ((plan.target_calories + calorie_adjustment + 1) \div 2),
        !.target_carbs = 2 * ((plan.target_carbs + carb_adjustment_g + 1) \div 2),
        !.last_coach_adjustment_at = Some(at),
        !.last_coach_w_curr = Some(Round2(<<w_curr, 1>>)),
        !.last_coach_w_prev = Some(Round2(<<w_prev, 1>>)),
        !.last_coach_anchor_date =
            IF anchor_date # None THEN anchor_date ELSE plan.last_coach_anchor_date ]

\* apply_suggestion storing the sums and the averages without round
applied_unrounded(plan, calorie_adjustment, carb_adjustment_g, w_curr, w_prev, at, anchor_date) ==
    [ plan EXCEPT
        !.target_calories = plan.target_calories + calorie_adjustment,
        !.target_carbs = plan.target_carbs + carb_adjustment_g,
        !.last_coach_adjustment_at = Some(at),
        !.last_coach_w_curr = Some(w_curr),
        !.last_coach_w_prev = Some(w_prev),
        !.last_coach_anchor_date =
            IF anchor_date # None THEN anchor_date ELSE plan.last_coach_anchor_date ]

\* the plan row after apply_suggestion
applied(plan, calorie_adjustment, carb_adjustment_g, w_curr, w_prev, at, anchor_date) ==
    [ plan EXCEPT
        !.target_calories = Round1(plan.target_calories + calorie_adjustment),
        !.target_carbs = Round1(plan.target_carbs + carb_adjustment_g),
        !.last_coach_adjustment_at = Some(at),
        !.last_coach_w_curr = Some(Round2(<<w_curr, 1>>)),
        !.last_coach_w_prev = Some(Round2(<<w_prev, 1>>)),
        !.last_coach_anchor_date =
            IF anchor_date # None THEN anchor_date ELSE plan.last_coach_anchor_date ]

\* dismiss_suggestion adding the usual slow-gain deltas to the targets
dismissed_adjusting(plan, w_curr, w_prev, at) ==
    [ plan EXCEPT
        !.target_calories = Round1(plan.target_calories + 5000),
        !.target_carbs = Round1(plan.target_carbs + 1250),
        !.last_coach_adjustment_at = Some(at),
        !.last_coach_w_curr = Some(Round2(<<w_curr, 1>>)),
        !.last_coach_w_prev = Some(Round2(<<w_prev, 1>>)) ]

\* dismiss_suggestion storing the two averages without the timestamp
dismissed_pair_only(plan, w_curr, w_prev, at) ==
    [ plan EXCEPT
        !.last_coach_w_curr = Some(Round2(<<w_curr, 1>>)),
        !.last_coach_w_prev = Some(Round2(<<w_prev, 1>>)) ]

\* the plan row after dismiss_suggestion
dismissed(plan, w_curr, w_prev, at) ==
    [ plan EXCEPT
        !.last_coach_adjustment_at = Some(at),
        !.last_coach_w_curr = Some(Round2(<<w_curr, 1>>)),
        !.last_coach_w_prev = Some(Round2(<<w_prev, 1>>)) ]

\* POST /coach/apply-suggestion
apply_suggestion ==
    \E user_id \in Users, args \in RequestArgs :
        LET request == [ op |-> "apply", user_id |-> user_id,
                         calorie_adjustment |-> args[1],
                         carb_adjustment_g |-> args[2],
                         w_curr |-> args[3], w_prev |-> args[4] ]
            ids == ActivePlanIds(user_id)
        IN  IF ids = {}
            THEN /\ last' = request @@ [status |-> "NoActivePlan"]
                 /\ UNCHANGED <<logs, plans, now, handled, dirty, callers>>
            ELSE IF Cardinality(ids) > 1
            THEN /\ last' = request @@ [status |-> "MultipleResultsFound"]
                 /\ UNCHANGED <<logs, plans, now, handled, dirty, callers>>
            ELSE LET id == CHOOSE i \in ids : TRUE IN
                 /\ now < MaxClock
                 /\ now' = now + 1
                 /\ plans' = [plans EXCEPT ![id] =
                                applied(plans[id], args[1], args[2], args[3], args[4],
                                        now', LatestLogDate(user_id))]
                 /\ last' = request @@ [status |-> "ok", plan_id |-> id]
                 /\ handled' = AnswersAnalysis(args[3], args[4])
                 /\ dirty' = FALSE
                 /\ UNCHANGED <<logs, callers>>

\* POST /coach/apply-suggestion by a client that sends the deltas and the
\* averages of the suggestion it has just been given
apply_suggested ==
    /\ last.op = "analyze" /\ last.status = "ok" /\ last.is_stagnating
    /\ apply_suggestion
    /\ last'.calorie_adjustment = Val(last.suggested_calorie_adjustment)
    /\ last'.carb_adjustment_g = Val(last.suggested_carb_adjustment_g)
    /\ last'.w_curr = last.current_week_avg_weight
    /\ last'.w_prev = last.previous_week_avg_weight

\* dismiss_suggestion writing the fingerprint to the newest plan of the table
\* when the user has no active plan
dismiss_suggestion_any_plan ==
    \E user_id \in Users, args \in RequestArgs :
        LET request == [ op |-> "dismiss", user_id |-> user_id,
                         w_curr |-> args[3], w_prev |-> args[4] ]
            ids == ActivePlanIds(user_id)
        IN  IF ids = {}
            THEN /\ last' = request @@ [status |-> "NoActivePlan"]
                 /\ plans' = IF Len(plans) = 0 THEN plans
                             ELSE [plans EXCEPT ![Len(plans)] =
                                     dismissed(plans[Len(plans)], args[3], args[4], now)]
                 /\ UNCHANGED <<logs, now, handled, dirty, callers>>
            ELSE IF Cardinality(ids) > 1
            THEN /\ last' = request @@ [status |-> "MultipleResultsFound"]
                 /\ UNCHANGED <<logs, plans, now, handled, dirty, callers>>
            ELSE LET id == CHOOSE i \in ids : TRUE IN
                 /\ now < MaxClock
                 /\ now' = now + 1
                 /\ plans' = [plans EXCEPT ![id] =
                                dismissed(plans[id], args[3], args[4], now')]
                 /\ last' = request @@ [status |-> "ok", plan_id |-> id]
                 /\ handled' = AnswersAnalysis(args[3], args[4])
                 /\ dirty' = FALSE
                 /\ UNCHANGED <<logs, callers>>

\* dismiss_suggestion
dismiss_suggestion ==
    \E user_id \in Users, args \in RequestArgs :
        LET request == [ op |-> "dismiss", user_id |-> user_id,
                         w_curr |-> args[3], w_prev |-> args[4] ]
            ids == ActivePlanIds(user_id)
        IN  IF ids = {}
            THEN /\ last' = request @@ [status |-> "NoActivePlan"]
                 /\ UNCHANGED <<logs, plans, now, handled, dirty, callers>>
            ELSE IF Cardinality(ids) > 1
            THEN /\ last' = request @@ [status |-> "MultipleResultsFound"]
                 /\ UNCHANGED <<logs, plans, now, handled, dirty, callers>>
            ELSE LET id == CHOOSE i \in ids : TRUE IN
                 /\ now < MaxClock
                 /\ now' = now + 1
                 /\ plans' = [plans EXCEPT ![id] =
                                dismissed(plans[id], args[3], args[4], now')]
                 /\ last' = request @@ [status |-> "ok", plan_id |-> id]
                 /\ handled' = AnswersAnalysis(args[3], args[4])
                 /\ dirty' = FALSE
                 /\ UNCHANGED <<logs, callers>>

----------------------------------------------------------------------------
\* Overlapping clients: each runs check-stagnation and, when a suggestion
\* comes back, apply-suggestion with it. A request's session reads the store
\* and commits in separate steps, so the steps of two requests interleave.

Callers == 1..MaxCallers

Idle == [c \in Callers |-> [pc |-> "idle", held |-> None, row |-> None]]

\* the plan every overlapping run starts from
InitialPlan == NewPlan(CHOOSE plan \in PlanInputs : plan.is_active)

\* the logs an overlapping run starts from: one on day 0, one on day 8
RaceLogs ==
    { SetToBag({PlainLog("default_user", 0, w0), PlainLog("default_user", 8, w8)}) :
      w0 \in {15000, 15025, 15100}, w8 \in {15000, 15025, 15100} }

\* POST /coach/check-stagnation by caller c
caller_analyze(c) ==
    /\ callers[c].pc = "idle"
    /\ \E all_logs \in FetchLogs("default_user") :
         LET result == check_stagnation(all_logs, ActivePlanIds("default_user"))
         IN  /\ last' = result
             /\ callers' = [callers EXCEPT ![c] =
                  IF result.status = "ok" /\ result.is_stagnating
                  THEN [pc |-> "suggested", held |-> Some(result), row |-> None]
                  ELSE IF result.status = "ok" /\ result.message = "already_adjusted"
                  THEN [pc |-> "told_to_wait", held |-> None, row |-> None]
                  ELSE [pc |-> "done", held |-> None, row |-> None]]
    /\ UNCHANGED <<logs, plans, now, handled, dirty>>

\* apply_suggestion by caller c, up to the SELECT of the active plan: the
\* session holds the row as it read it
caller_load(c) ==
    /\ callers[c].pc = "suggested"
    /\ LET ids == ActivePlanIds("default_user")
       IN  /\ Cardinality(ids) = 1
           /\ callers' = [callers EXCEPT ![c].pc = "loaded",
                                         ![c].row = Some(plans[CHOOSE i \in ids : TRUE])]
    /\ UNCHANGED <<logs, plans, now, last, handled, dirty>>

\* apply_suggestion by caller c, from the assignments to the commit: the
\* UPDATE writes the values computed from the row the session holds
caller_commit(c) ==
    /\ callers[c].pc = "loaded"
    /\ LET held == Val(callers[c].held)
           id == CHOOSE i \in ActivePlanIds("default_user") : TRUE
       IN  /\ now' = now + 1
           /\ plans' = [plans EXCEPT ![id] =
                          applied(Val(callers[c].row),
                                  Val(held.suggested_calorie_adjustment),
                                  Val(held.suggested_carb_adjustment_g),
                                  held.current_week_avg_weight,
                                  held.previous_week_avg_weight,
                                  now', LatestLogDate("default_user"))]
           /\ last' = [ op |-> "apply", user_id |-> "default_user",
                        calorie_adjustment |-> Val(held.suggested_calorie_adjustment),
                        carb_adjustment_g |-> Val(held.suggested_carb_adjustment_g),
                        w_curr |-> held.current_week_avg_weight,
                        w_prev |-> held.previous_week_avg_weight,
                        status |-> "ok", plan_id |-> id ]
           /\ callers' = [callers EXCEPT ![c].pc = "done"]
    /\ UNCHANGED <<logs, handled, dirty>>

\* apply_suggestion refusing to add the deltas when the plan already stores
\* the averages of the request
caller_apply_guarded(c) ==
    /\ callers[c].pc \in {"suggested", "applied"}
    /\ Cardinality(ActivePlanIds("default_user")) = 1
    /\ LET held == Val(callers[c].held)
           id == CHOOSE i \in ActivePlanIds("default_user") : TRUE
       IN  /\ now' = now + 1
           /\ plans' = IF already_adjusted(Some(plans[id]),
                                           <<held.current_week_avg_weight, 1>>,
                                           <<held.previous_week_avg_weight, 1>>)
                       THEN plans
                       ELSE [plans EXCEPT ![id] =
                               applied(plans[id],
                                       Val(held.suggested_calorie_adjustment),
                                       Val(held.suggested_carb_adjustment_g),
                                       held.current_week_avg_weight,
                                       held.previous_week_avg_weight,
                                       now', LatestLogDate("default_user"))]
           /\ last' = [ op |-> "apply", user_id |-> "default_user",
                        calorie_adjustment |-> Val(held.suggested_calorie_adjustment),
                        carb_adjustment_g |-> Val(held.suggested_carb_adjustment_g),
                        w_curr |-> held.current_week_avg_weight,
                        w_prev |-> held.previous_week_avg_weight,
                        status |-> "ok", plan_id |-> id ]
           /\ callers' = [callers EXCEPT ![c].pc =
                            IF @ = "suggested" THEN "applied" ELSE "applied_twice"]
    /\ UNCHANGED <<logs, handled, dirty>>

\* apply_suggestion by caller c with the suggestion it holds, as one step;
\* the caller may send the same request a second time
caller_apply(c) ==
    /\ callers[c].pc \in {"suggested", "applied"}
    /\ Cardinality(ActivePlanIds("default_user")) = 1
    /\ LET held == Val(callers[c].held)
           id == CHOOSE i \in ActivePlanIds("default_user") : TRUE
       IN  /\ now' = now + 1
           /\ plans' = [plans EXCEPT ![id] =
                          applied(plans[id],
                                  Val(held.suggested_calorie_adjustment),
                                  Val(held.suggested_carb_adjustment_g),
                                  held.current_week_avg_weight,
                                  held.previous_week_avg_weight,
                                  now', LatestLogDate("default_user"))]
           /\ last' = [ op |-> "apply", user_id |-> "default_user",
                        calorie_adjustment |-> Val(held.suggested_calorie_adjustment),
                        carb_adjustment_g |-> Val(held.suggested_carb_adjustment_g),
                        w_curr |-> held.current_week_avg_weight,
                        w_prev |-> held.previous_week_avg_weight,
                        status |-> "ok", plan_id |-> id ]
           /\ callers' = [callers EXCEPT ![c].pc =
                            IF @ = "suggested" THEN "applied" ELSE "applied_twice"]
    /\ UNCHANGED <<logs, handled, dirty>>

----------------------------------------------------------------------------
\* Specifications

\* an empty database
Init ==
    /\ logs = EmptyBag
    /\ plans = <<>>
    /\ now = 0
    /\ last = [op |-> "none"]
    /\ handled = FALSE
    /\ dirty = FALSE
    /\ callers = Idle

\* a database with no plan, or with the one active plan of the user
InitOnePlan ==
    /\ logs = EmptyBag
    /\ plans \in { <<>> } \cup
                 { <<NewPlan(plan)>> : plan \in {p \in PlanInputs : p.is_active} }
    /\ now = 0
    /\ last = [op |-> "none"]
    /\ handled = FALSE
    /\ dirty = FALSE
    /\ callers = Idle

\* The fingerprint guard: the logs change under one plan
Next ==
    \/ create_body_log(GuardLogs)
    \/ update_body_log(GuardUpdates)
    \/ delete_body_log
    \/ analyze
    \/ apply_suggestion
    \/ dismiss_suggestion

Spec == InitOnePlan /\ [][Next]_vars

\* The analysis alone, over more dates and weights
NextAnalysis ==
    \/ create_body_log(WideLogs)
    \/ update_body_log(WideUpdates)
    \/ delete_body_log
    \/ analyze

SpecAnalysis == InitOnePlan /\ [][NextAnalysis]_vars

\* The plan table: plans are created, applied to and dismissed
NextPlans ==
    \/ create_body_log(FewLogs)
    \/ delete_body_log
    \/ create_diet_plan
    \/ analyze
    \/ apply_suggestion
    \/ dismiss_suggestion

SpecPlans == Init /\ [][NextPlans]_vars

\* The analysis over weights whose rate falls next to a band limit
NextRounding ==
    \/ create_body_log(RoundingLogs)
    \/ delete_body_log
    \/ analyze

SpecRounding == InitOnePlan /\ [][NextRounding]_vars

\* The analysis over logs with waist, arm and body fat around the thresholds
NextCutting ==
    \/ create_body_log(CuttingLogs)
    \/ delete_body_log
    \/ analyze

SpecCutting == InitOnePlan /\ [][NextCutting]_vars

\* The analysis over logs whose measurements are missing, 0 or positive
NextArm ==
    \/ create_body_log(ArmLogs)
    \/ delete_body_log
    \/ analyze

SpecArm == InitOnePlan /\ [][NextArm]_vars

\* A plan created with low targets; the client applies what analyze suggests
InitLowPlan ==
    /\ logs = EmptyBag
    /\ plans \in { <<NewPlan(plan)>> : plan \in LowPlanInputs }
    /\ now = 0
    /\ last = [op |-> "none"]
    /\ handled = FALSE
    /\ dirty = FALSE
    /\ callers = Idle

NextLowPlan ==
    \/ create_body_log(LowPlanLogs)
    \/ delete_body_log
    \/ analyze
    \/ apply_suggested

SpecLowPlan == InitLowPlan /\ [][NextLowPlan]_vars

\* Overlapping clients over fixed logs and one active plan
InitRace ==
    /\ logs \in RaceLogs
    /\ plans = <<InitialPlan>>
    /\ now = 0
    /\ last = [op |-> "none"]
    /\ handled = FALSE
    /\ dirty = FALSE
    /\ callers = Idle

NextRace ==
    \E c \in Callers :
        \/ caller_analyze(c)
        \/ caller_load(c)
        \/ caller_commit(c)

\* The plan table under the four operations that write it
NextTargets ==
    \/ create_diet_plan
    \/ update_diet_plan_targets
    \/ apply_suggestion
    \/ dismiss_suggestion

SpecTargets == Init /\ [][NextTargets]_vars

SpecRace == InitRace /\ [][NextRace]_vars

\* Clients that apply the suggestion they hold, and may apply it again, over
\* fixed logs and one active plan
NextRepeat ==
    \E c \in Callers :
        \/ caller_analyze(c)
        \/ caller_apply(c)

SpecRepeat == InitRace /\ [][NextRepeat]_vars

\* The analysis over logs with body fat and skinfolds, on three dates
NextBodyFat ==
    \/ create_body_log(BodyFatLogs)
    \/ delete_body_log
    \/ analyze

SpecBodyFat == InitOnePlan /\ [][NextBodyFat]_vars

\* The estimator alone, applied to seven skinfolds and an age
NextEstimator == estimate

InitEstimator ==
    /\ logs = EmptyBag
    /\ plans = <<>>
    /\ now = 0
    /\ last \in EstimatorInputs
    /\ handled = FALSE
    /\ dirty = FALSE
    /\ callers = Idle

SpecEstimator == InitEstimator /\ [][NextEstimator]_vars

----------------------------------------------------------------------------
\* Properties

TheUser == "default_user"

\* the active plan of the user: None or Some(row)
ActivePlan ==
    IF ActivePlanIds(TheUser) = {} THEN None
    ELSE Some(plans[CHOOSE i \in ActivePlanIds(TheUser) : TRUE])

\* the last request was an analysis that returned a result
Analyzed == last.op = "analyze" /\ last.status = "ok"

\* the active plan carries a fingerprint
HasFingerprint ==
    /\ ActivePlan # None
    /\ Val(ActivePlan).last_coach_adjustment_at # None
    /\ Val(ActivePlan).last_coach_w_curr # None
    /\ Val(ActivePlan).last_coach_w_prev # None

NoSuggestion == \A f \in SuggestionFields : last[f] = None

\* the deltas section 4.3 of the specification gives each state
DeltaCalories(state) ==
    CASE state = "weight_loss" -> 10000
      [] state = "slow_gain" -> 5000
      [] state = "optimal" -> 0
      [] state = "high_velocity" -> -5000

DeltaCarbs(state) ==
    CASE state = "weight_loss" -> 2500
      [] state = "slow_gain" -> 1250
      [] state = "optimal" -> 0
      [] state = "high_velocity" -> -1250

\* C1: once an analysis has found an adjustment state and apply or dismiss
\* was called with its two averages, every analysis over the same logs and
\* the same active plan answers is_stagnating = false, the "already handled"
\* message and no suggestion field.
C1_RepeatSuppressed ==
    (Analyzed /\ handled) =>
        /\ last.is_stagnating = FALSE
        /\ last.message = "already_adjusted"
        /\ NoSuggestion

C1_Witness ==
    /\ Analyzed /\ handled
    /\ last.analysis_state = "high_velocity"
    /\ last.message = "already_adjusted"

\* C2: with a fingerprint stored, an analysis whose rounded averages differ
\* from the stored pair is not suppressed: its message is the state's own,
\* is_stagnating holds exactly in the adjustment states, and the suggestion
\* is computed anew from the state and the plan's targets.
C2_ChangedAveragesReopen ==
    (/\ Analyzed /\ HasFingerprint
     /\ <<last.current_week_avg_weight, last.previous_week_avg_weight>> #
        <<Val(Val(ActivePlan).last_coach_w_curr), Val(Val(ActivePlan).last_coach_w_prev)>>)
    =>
        /\ last.message # "already_adjusted"
        /\ last.message = last.analysis_state
        /\ last.is_stagnating = (last.analysis_state \in AdjustStates)
        /\ last.analysis_state \in AdjustStates =>
             /\ last.suggested_calorie_adjustment = Some(DeltaCalories(last.analysis_state))
             /\ last.suggested_carb_adjustment_g = Some(DeltaCarbs(last.analysis_state))
             /\ last.new_target_calories =
                  Some(Round1(Val(ActivePlan).target_calories
                              + DeltaCalories(last.analysis_state)))
             /\ last.new_target_carbs =
                  Some(Round1(Val(ActivePlan).target_carbs
                              + DeltaCarbs(last.analysis_state)))

C2_Witness ==
    /\ Analyzed /\ HasFingerprint /\ dirty
    /\ last.previous_week_avg_weight # Val(Val(ActivePlan).last_coach_w_prev)
    /\ last.current_week_avg_weight = Val(Val(ActivePlan).last_coach_w_curr)
    /\ last.is_stagnating

\* C3: once apply or dismiss has recorded a fingerprint, an insertion, a
\* weight edit or a deletion of a log in the current or the previous window
\* makes the next analysis answer unsuppressed, never "already handled".
C3_EveryMutationReopens ==
    (Analyzed /\ HasFingerprint /\ dirty) => last.message # "already_adjusted"

\* C4: an analysis, whether it returns a result or raises, leaves every plan
\* row (targets and fingerprint fields) and every body log as they were.
C4_AnalyzeWritesNothing ==
    [][last'.op = "analyze" => (plans' = plans /\ logs' = logs)]_vars

C4_Witness ==
    /\ Analyzed /\ HasFingerprint
    /\ last.is_stagnating

\* C5: the classifier gives every rate exactly one of four outcomes:
\* rate < 0 weight_loss +500/+125; 0 <= rate < 0.125 slow_gain +250/+62.5;
\* 0.125 <= rate <= 0.375 optimal 0/0; rate > 0.375 high_velocity -250/-62.5.
C5_ClassifierBands ==
    Analyzed =>
        LET n == last.raw_weekly_rate[1]
            d == last.raw_weekly_rate[2]
            c == last.raw_classification
        IN  /\ d > 0
            /\ last.analysis_state = c[1]
            /\ (n < 0) => c = <<"weight_loss", 10000, 2500>>
            /\ (n >= 0 /\ 8 * n < d) => c = <<"slow_gain", 5000, 1250>>
            /\ (8 * n >= d /\ 8 * n <= 3 * d) => c = <<"optimal", 0, 0>>
            /\ (8 * n > 3 * d) => c = <<"high_velocity", -5000, -1250>>

C5_Witness ==
    /\ Analyzed
    /\ 8 * last.raw_weekly_rate[1] = last.raw_weekly_rate[2]
    /\ last.analysis_state = "optimal"

C7_WeeksAtLeastOne ==
    Analyzed =>
        /\ last.raw_weeks_elapsed[1] >= last.raw_weeks_elapsed[2]
        /\ last.raw_weeks_elapsed[2] > 0
        /\ last.weeks_elapsed >= 10

C7_Witness ==
    /\ Analyzed
    /\ last.anchor_date - last.t_prev = 8
    /\ last.weeks_elapsed = 11

C9_ApplyEffect ==
    [][(last'.op = "apply" /\ last'.status = "ok") =>
        LET id  == last'.plan_id
            old == plans[id]
            new == plans'[id]
        IN  /\ ActivePlanIds(last'.user_id) = {id}
            /\ new.target_calories = Round1(old.target_calories + last'.calorie_adjustment)
            /\ new.target_carbs = Round1(old.target_carbs + last'.carb_adjustment_g)
            /\ new.last_coach_w_curr = Some(Round2(<<last'.w_curr, 1>>))
            /\ new.last_coach_w_prev = Some(Round2(<<last'.w_prev, 1>>))
            /\ new.last_coach_adjustment_at # None
            /\ new.last_coach_anchor_date =
                 IF BagToSet(logs) = {} THEN old.last_coach_anchor_date
                 ELSE Some(MaxDate(logs))
            /\ new.target_protein = old.target_protein
            /\ new.target_fat = old.target_fat
            /\ new.is_active = old.is_active
            /\ new.user_id = old.user_id
            /\ Len(plans') = Len(plans)
            /\ \A j \in 1..Len(plans) : j # id => plans'[j] = plans[j]
            /\ logs' = logs
      ]_vars

C9_Witness ==
    /\ last.op = "apply" /\ last.status = "ok"
    /\ last.calorie_adjustment < 0
    /\ \E j \in 1..Len(plans) :
          /\ j # last.plan_id
          /\ plans[j].last_coach_w_curr # None
    /\ BagToSet(logs) # {}

\* C10: a successful dismiss stores round(w_curr, 2) and round(w_prev, 2)
\* with a timestamp, as apply does, and leaves the four targets and every
\* other field of the active plan as they were.
C10_DismissEffect ==
    [][(last'.op = "dismiss" /\ last'.status = "ok") =>
        LET id  == last'.plan_id
            old == plans[id]
            new == plans'[id]
        IN  /\ ActivePlanIds(last'.user_id) = {id}
            /\ new.last_coach_w_curr = Some(Round2(<<last'.w_curr, 1>>))
            /\ new.last_coach_w_prev = Some(Round2(<<last'.w_prev, 1>>))
            /\ new.last_coach_adjustment_at # None
            /\ new = [old EXCEPT !.last_coach_w_curr = new.last_coach_w_curr,
                                 !.last_coach_w_prev = new.last_coach_w_prev,
                                 !.last_coach_adjustment_at = new.last_coach_adjustment_at]
            /\ new.target_calories = old.target_calories
            /\ new.target_carbs = old.target_carbs
            /\ new.target_protein = old.target_protein
            /\ new.target_fat = old.target_fat
      ]_vars

C10_Witness ==
    /\ last.op = "dismiss" /\ last.status = "ok"
    /\ Val(plans[last.plan_id].last_coach_w_curr) # last.w_curr
    /\ plans[last.plan_id].target_calories # 60005

\* C11: apply and dismiss for a user without an active plan end with the
\* NoActivePlan error and write nothing: every plan row and every body log
\* stays as it was.
C11_NoActivePlanWritesNothing ==
    [][(/\ last'.op \in {"apply", "dismiss"}
        /\ ActivePlanIds(last'.user_id) = {})
       => (/\ last'.status = "NoActivePlan"
           /\ plans' = plans
           /\ logs' = logs)]_vars

C11_Witness ==
    /\ last.op = "dismiss"
    /\ last.status = "NoActivePlan"
    /\ Len(plans) >= 1
    /\ BagToSet(logs) # {}

\* the stored fingerprint of the active plan equals the averages reported
FingerprintMatches ==
    /\ HasFingerprint
    /\ Val(Val(ActivePlan).last_coach_w_curr) = last.current_week_avg_weight
    /\ Val(Val(ActivePlan).last_coach_w_prev) = last.previous_week_avg_weight

\* C12: in every result is_stagnating holds exactly when the state is
\* weight_loss, slow_gain or high_velocity and the stored fingerprint does
\* not equal the rounded averages; the suggested calorie and carb deltas are
\* non-null exactly when is_stagnating holds.
C12_StagnatingIff ==
    Analyzed =>
        /\ last.is_stagnating <=>
             (last.analysis_state \in AdjustStates /\ ~FingerprintMatches)
        /\ last.suggested_calorie_adjustment # None <=> last.is_stagnating
        /\ last.suggested_carb_adjustment_g # None <=> last.is_stagnating

C12_Witness ==
    /\ Analyzed
    /\ FingerprintMatches
    /\ last.analysis_state = "optimal"
    /\ last.message = "optimal"

\* C13: a suggestion surfaced with an active plan carries new_target_calories
\* = suggested_calories = round(target_calories + delta, 1) and the same for
\* carbs; an apply of the suggested deltas right after it leaves the plan's
\* targets equal to those new_target values.
C13_SuggestedTargetsApplied ==
    [][/\ (/\ last'.op = "analyze" /\ last'.status = "ok"
           /\ last'.is_stagnating /\ ActivePlanIds(TheUser)' # {})
          => LET plan == plans'[CHOOSE i \in ActivePlanIds(TheUser)' : TRUE]
                 state == last'.analysis_state
             IN  /\ last'.new_target_calories = last'.suggested_calories
                 /\ last'.new_target_calories =
                      Some(Round1(plan.target_calories + DeltaCalories(state)))
                 /\ last'.new_target_carbs = last'.suggested_carbs_g
                 /\ last'.new_target_carbs =
                      Some(Round1(plan.target_carbs + DeltaCarbs(state)))
       /\ (/\ Analyzed /\ last.is_stagnating /\ ActivePlan # None
           /\ last'.op = "apply" /\ last'.status = "ok"
           /\ last'.calorie_adjustment = Val(last.suggested_calorie_adjustment)
           /\ last'.carb_adjustment_g = Val(last.suggested_carb_adjustment_g))
          => /\ Some(plans'[last'.plan_id].target_calories) = last.new_target_calories
             /\ Some(plans'[last'.plan_id].target_carbs) = last.new_target_carbs
      ]_vars

C13_Witness ==
    /\ last.op = "apply" /\ last.status = "ok"
    /\ handled
    /\ last.calorie_adjustment = -5000
    /\ plans[last.plan_id].target_calories = 55004
    /\ plans[last.plan_id].target_carbs = 6750

\* C14: when callers run analyze and then apply over the same unchanged
\* logs, in every interleaving of their reads and commits the suggested
\* deltas are added to the plan's targets at most once: the targets are the
\* initial ones or the initial ones plus one delta.
C14_DeltasAddedAtMostOnce ==
    \A c \in Callers :
        callers[c].held # None =>
            LET held == Val(callers[c].held)
                once == applied(InitialPlan,
                                Val(held.suggested_calorie_adjustment),
                                Val(held.suggested_carb_adjustment_g),
                                held.current_week_avg_weight,
                                held.previous_week_avg_weight,
                                now, LatestLogDate("default_user"))
            IN  /\ plans[1].target_calories \in
                     {InitialPlan.target_calories, once.target_calories}
                /\ plans[1].target_carbs \in
                     {InitialPlan.target_carbs, once.target_carbs}

\* C15 as stated: the reported, 3-decimal weekly_rate lies in the band of
\* the reported state: weight_loss < 0; 0 <= slow_gain < 0.125;
\* 0.125 <= optimal <= 0.375; high_velocity > 0.375.
C15_ReportedRateInBand ==
    Analyzed =>
        /\ last.analysis_state = "weight_loss" => last.weekly_rate < 0
        /\ last.analysis_state = "slow_gain" =>
             (0 <= last.weekly_rate /\ last.weekly_rate < 125)
        /\ last.analysis_state = "optimal" =>
             (125 <= last.weekly_rate /\ last.weekly_rate <= 375)
        /\ last.analysis_state = "high_velocity" => last.weekly_rate > 375

\* C15, amended: the reported weekly_rate is within 0.0005 of the rate that
\* was classified, so it lies in the closure of the band of the state:
\* weight_loss <= 0; 0 <= slow_gain <= 0.125; 0.125 <= optimal <= 0.375;
\* high_velocity >= 0.375.
C15_ReportedRateInClosedBand ==
    Analyzed =>
        LET n == last.raw_weekly_rate[1]
            d == last.raw_weekly_rate[2]
            e == 1000 * n - last.weekly_rate * d
        IN  /\ d > 0
            /\ 2 * e <= d /\ -2 * e <= d
            /\ last.analysis_state = "weight_loss" => last.weekly_rate <= 0
            /\ last.analysis_state = "slow_gain" =>
                 (0 <= last.weekly_rate /\ last.weekly_rate <= 125)
            /\ last.analysis_state = "optimal" =>
                 (125 <= last.weekly_rate /\ last.weekly_rate <= 375)
            /\ last.analysis_state = "high_velocity" => last.weekly_rate >= 375

C15_Witness ==
    /\ Analyzed
    /\ last.analysis_state = "slow_gain"
    /\ last.weekly_rate = 125

\* the rows of the bag b dated in [lo, hi], with their multiplicities
Between(b, lo, hi) ==
    LET rows == {r \in BagToSet(b) : lo <= r.date /\ r.date <= hi}
    IN  [r \in rows |-> CopiesIn(r, b)]

\* the sum of the weights of the rows of the set S, each counted as often
\* as it occurs in the bag b
RECURSIVE TotalWeight(_, _)
TotalWeight(S, b) ==
    IF S = {} THEN 0
    ELSE LET r == CHOOSE x \in S : TRUE
         IN  r.weight_kg * CopiesIn(r, b) + TotalWeight(S \ {r}, b)

Stripped(all_logs) ==
    [i \in 1..Len(all_logs) |->
        PlainLog(all_logs[i].user_id, all_logs[i].date, all_logs[i].weight_kg)]

\* C17: the stop-condition signals are advisory: the logs with their waist,
\* arm and body-fat values removed, under the same plans, give the same
\* analysis_state, is_stagnating, message, suggested deltas and targets.
C17_MeasurementsAdvisoryOnly ==
    Analyzed =>
        \A all_logs \in FetchLogs(TheUser) :
            LET plain == check_stagnation(Stripped(all_logs), ActivePlanIds(TheUser))
            IN  /\ plain.status = "ok"
                /\ \A f \in {"analysis_state", "is_stagnating", "message"}
                            \cup SuggestionFields :
                       plain[f] = last[f]

C17_Witness ==
    /\ Analyzed
    /\ last.suggest_cutting
    /\ Len(last.cutting_reasons) = 2
    /\ last.analysis_state = "optimal"
    /\ \E r \in BagToSet(logs) : r.weight_kg = 15100 /\ r.circ_waist # None
    /\ \E r \in BagToSet(logs) : r.date = 8 /\ r.circ_waist = None

\* the waist-vs-arm check fired in the last result
WaistVsArmFired == \E i \in 1..Len(last.cutting_reasons) :
                       last.cutting_reasons[i] = "waist_vs_arm"

\* the body-fat check fired in the last result
BodyFatFired == \E i \in 1..Len(last.cutting_reasons) :
                    last.cutting_reasons[i] = "body_fat_ceiling"

\* C18: suggest_cutting holds exactly when at least one of the two stop
\* checks fired; cutting_reasons holds one reason per check that fired, the
\* waist-vs-arm one first; each check fires on its own condition whatever
\* the other does.
C18_CuttingFlagAndReasons ==
    Analyzed =>
        LET waist == /\ last.raw_waist_change # None
                     /\ last.raw_arm_change # None
                     /\ Val(last.raw_waist_change) > 10
                     /\ Val(last.raw_arm_change) <= 2
            fat   == /\ last.raw_body_fat # None
                     /\ Val(last.raw_body_fat) > 400
        IN  /\ last.suggest_cutting <=> (waist \/ fat)
            /\ last.cutting_reasons =
                 (IF waist THEN <<"waist_vs_arm">> ELSE <<>>) \o
                 (IF fat THEN <<"body_fat_ceiling">> ELSE <<>>)
            /\ last.suggest_cutting <=> (last.cutting_reasons # <<>>)

C18_Witness ==
    /\ Analyzed
    /\ last.cutting_reasons = <<"waist_vs_arm", "body_fat_ceiling">>
    /\ last.suggest_cutting

\* the rows of the user dated in [lo, hi] that carry a waist value
WithWaist(lo, hi) ==
    {r \in BagToSet(UserLogs(TheUser)) :
        lo <= r.date /\ r.date <= hi /\ r.circ_waist # None}

\* the rows of the user dated in [lo, hi] that carry an arm value
WithArm(lo, hi) ==
    {r \in BagToSet(UserLogs(TheUser)) :
        /\ lo <= r.date /\ r.date <= hi
        /\ (r.circ_arm_contracted_right # None \/ r.circ_arm_relaxed_right # None)}

\* the arm value of a row: contracted-right, else relaxed-right
ArmOf(r) == IF r.circ_arm_contracted_right # None
            THEN Val(r.circ_arm_contracted_right)
            ELSE Val(r.circ_arm_relaxed_right)

ClaimedWaist(all_logs, lo, hi) ==
    LET rows == SelectSeq(all_logs, LAMBDA r :
                    lo <= r.date /\ r.date <= hi /\ r.circ_waist # None)
    IN  IF rows = <<>> THEN None ELSE Head(rows).circ_waist

\* the first non-null arm value among the rows of all_logs dated in
\* [lo, hi]: contracted-right, relaxed-right only when that is null
ClaimedArm(all_logs, lo, hi) ==
    LET rows == SelectSeq(all_logs, LAMBDA r :
                    /\ lo <= r.date /\ r.date <= hi
                    /\ (r.circ_arm_contracted_right # None
                        \/ r.circ_arm_relaxed_right # None))
    IN  IF rows = <<>> THEN None ELSE Some(ArmOf(Head(rows)))

\* curr - prev of two optional values, None when one is missing
Change(curr, prev) ==
    IF curr # None /\ prev # None THEN Some(Val(curr) - Val(prev)) ELSE None

\* C20: in each window, scanned newest first, the waist used is the first
\* non-null waist and the arm used is the first non-null arm value,
\* contracted-right before relaxed-right, for every value >= 0, 0 included:
\* the two changes of the result are the differences of those values for
\* some order the query may return.
C20_FirstNonNullValues ==
    Analyzed =>
        \E all_logs \in FetchLogs(TheUser) :
            LET t_curr == last.anchor_date
                t_prev == last.t_prev
            IN  /\ last.raw_waist_change =
                     Change(ClaimedWaist(all_logs, t_curr - 6, t_curr),
                            ClaimedWaist(all_logs, t_prev - 6, t_prev))
                /\ last.raw_arm_change =
                     Change(ClaimedArm(all_logs, t_curr - 6, t_curr),
                            ClaimedArm(all_logs, t_prev - 6, t_prev))

\* a list the log query may return gives the last result's body fat
LatestBodyFatIs(fat) ==
    \E all_logs \in FetchLogs(TheUser) :
        LET with == SelectSeq(all_logs, LAMBDA r : r.bio_body_fat_percent # None)
        IN  fat = IF with = <<>> THEN None ELSE Head(with).bio_body_fat_percent

\* C21: the body-fat check reads the first non-null bio_body_fat_percent of
\* all the fetched logs, newest first, in the windows or not, and no value
\* estimated from skinfolds; it fires exactly when that reading is above
\* 20 %: a reading of exactly 20 %, or none, does not fire.
C21_BodyFatCeiling ==
    Analyzed =>
        /\ LatestBodyFatIs(last.raw_body_fat)
        /\ BodyFatFired <=>
             (last.raw_body_fat # None /\ Val(last.raw_body_fat) > 400)

\* a reading above 20 % outside both windows fires with none in the windows,
\* although a newer row carries skinfolds
C21_Witness ==
    /\ Analyzed
    /\ BodyFatFired
    /\ last.anchor_date = 16 /\ last.t_prev = 8
    /\ \A r \in BagToSet(logs) : r.bio_body_fat_percent # None => r.date = 0
    /\ \E r \in BagToSet(logs) : r.date = 16 /\ r.skinfolds # None

\* C22: the estimator returns for every seven skinfolds and every age, and
\* its fat percentage lies in [0, 60]: 0 when 495 / density - 450 is below
\* 0, 60 when it is above 60, and 0 when the density is not positive.
C22_FatPercentClamped ==
    last.op = "estimate" =>
        LET d == last.body_density
            fat == last.body_fat_percent
        IN  /\ last.status = "ok"
            /\ 0 <= fat /\ fat <= 6000
            /\ d <= 0 => fat = 0
            /\ (d > 0 /\ 495000000 - 450 * d < 0) => fat = 0
            /\ (d > 0 /\ 495000000 - 450 * d > 60 * d) => fat = 6000
            /\ d = calculate_body_density_pollock_7(last.sum_of_skinfolds, last.age_years)

C22_Witness ==
    /\ last.op = "estimate"
    /\ last.body_density > 0
    /\ 495000000 - 450 * last.body_density > 60 * last.body_density
    /\ last.body_fat_percent = 6000

\* C23: in every result the anchors are at least 7 days apart, t_prev being
\* before t_curr - 6; so days_between / 7 is at least 1 and weeks_elapsed is
\* days_between / 7, the floor max(..., 1.0) changing nothing.
C23_AnchorsAWeekApart ==
    Analyzed =>
        LET days_between == last.anchor_date - last.t_prev
        IN  /\ last.t_prev < last.anchor_date - 6
            /\ days_between >= 7
            /\ last.raw_weeks_elapsed[1] * 7 = days_between * last.raw_weeks_elapsed[2]

C23_Witness ==
    /\ Analyzed
    /\ last.anchor_date - last.t_prev = 7
    /\ last.raw_weeks_elapsed = <<7, 7>>
    /\ last.weeks_elapsed = 10

\* C24: in every result the previous window ends before the current one
\* starts, no log is dated strictly between t_prev and t_curr - 6, and so
\* every log lies in the current window or is dated at or before t_prev; no
\* row counts in both means.
C24_WindowsDisjoint ==
    Analyzed =>
        LET t_curr == last.anchor_date
            t_prev == last.t_prev
            rows   == BagToSet(UserLogs(TheUser))
        IN  /\ t_prev < t_curr - 6
            /\ \A d \in (t_prev - 6)..t_prev : ~(t_curr - 6 <= d /\ d <= t_curr)
            /\ \A r \in rows : ~(t_prev < r.date /\ r.date < t_curr - 6)
            /\ \A r \in rows :
                 \/ (t_curr - 6 <= r.date /\ r.date <= t_curr)
                 \/ r.date <= t_prev
            /\ last.raw_w_curr[2] + last.raw_w_prev[2] <= BagCardinality(UserLogs(TheUser))

C24_Witness ==
    /\ Analyzed
    /\ last.anchor_date = 14 /\ last.t_prev = 7
    /\ \E r \in BagToSet(logs) : r.date = 8
    /\ last.raw_w_curr[2] = 2 /\ last.raw_w_prev[2] = 1

\* the number of apply requests the callers 1..n have been served
RECURSIVE Applies(_)
Applies(n) ==
    IF n = 0 THEN 0
    ELSE Applies(n - 1) + (CASE callers[n].pc = "applied" -> 1
                             [] callers[n].pc = "applied_twice" -> 2
                             [] OTHER -> 0)

\* the target t after n applies of delta: round(t + delta, 1), n times
RECURSIVE AddedTimes(_, _, _)
AddedTimes(t, delta, n) ==
    IF n = 0 THEN t ELSE Round1(AddedTimes(t, delta, n - 1) + delta)

\* C25: apply does not consult the stored fingerprint: over unchanged logs
\* every apply served adds its deltas, target = round(target + delta, 1), so
\* after n applies of the same suggestion the targets have moved n times
\* (carbs, created with one decimal, by exactly n deltas; two applies by
\* twice the deltas), while an analysis after an apply is suppressed.
C25_EveryApplyAdds ==
    /\ \A c \in Callers :
         callers[c].held # None =>
            LET held == Val(callers[c].held)
                calories == Val(held.suggested_calorie_adjustment)
                carbs == Val(held.suggested_carb_adjustment_g)
                n == Applies(MaxCallers)
            IN  /\ plans[1].target_calories =
                     AddedTimes(InitialPlan.target_calories, calories, n)
                /\ plans[1].target_carbs =
                     AddedTimes(InitialPlan.target_carbs, carbs, n)
                /\ plans[1].target_carbs = InitialPlan.target_carbs + n * carbs
                /\ plans[1].target_calories - (InitialPlan.target_calories + n * calories)
                     \in {-1, 0, 1}
    /\ (Analyzed /\ Applies(MaxCallers) >= 1 /\ last.analysis_state \in AdjustStates)
         => last.message = "already_adjusted"

\* one caller has applied its suggestion twice: 400.0 g of carbs became 525.0
C25_Witness ==
    \E c \in Callers :
        /\ callers[c].pc = "applied_twice"
        /\ Applies(MaxCallers) = 2
        /\ Val(callers[c].held).suggested_carb_adjustment_g = Some(1250)
        /\ plans[1].target_carbs = InitialPlan.target_carbs + 2500
        /\ plans[1].target_calories = 70004

ReopenedAndBack ==
    <>(/\ last.op \in {"apply", "dismiss"} /\ last.status = "ok" /\ handled /\ now = 1
       /\ <>(/\ Analyzed /\ last.is_stagnating /\ now = 1
             /\ <>(Analyzed /\ last.message = "already_adjusted" /\ now = 1)))

NeverReopenedAndBack == ~ReopenedAndBack

\* C27: in every state reached through create_diet_plan,
\* update_diet_plan_targets, apply and dismiss, each plan has its timestamp
\* and its two stored averages all null or all non-null, and stored averages
\* are values of two decimals.
C27_FingerprintAllOrNone ==
    \A i \in 1..Len(plans) :
        LET plan == plans[i]
            fields == {plan.last_coach_adjustment_at, plan.last_coach_w_curr,
                       plan.last_coach_w_prev}
        IN  /\ (\A f \in fields : f = None) \/ (\A f \in fields : f # None)
            /\ plan.last_coach_w_curr # None =>
                 /\ Val(plan.last_coach_w_curr) % 2 = 0
                 /\ Val(plan.last_coach_w_prev) % 2 = 0

\* a plan dismissed with averages of three decimals, 75.125 and 75.375 kg,
\* and updated since, next to a plan without a fingerprint
C27_Witness ==
    /\ last.op = "update_diet_plan_targets" /\ last.status = "ok"
    /\ plans[last.plan_id].last_coach_w_curr = Some(15024)
    /\ plans[last.plan_id].last_coach_w_prev = Some(15076)
    /\ plans[last.plan_id].target_calories = 0
    /\ \E j \in 1..Len(plans) : plans[j].last_coach_adjustment_at = None

\* C28: a plan created with targets >= 0 keeps target_calories >= 0 and
\* target_carbs >= 0 through every sequence of analyses and applies of the
\* deltas the analysis suggested.
C28_TargetsStayNonNegative ==
    \A i \in 1..Len(plans) :
        /\ plans[i].target_calories >= 0
        /\ plans[i].target_carbs >= 0

\* C29: the fingerprint belongs to the plan row: an analysis under an active
\* plan that stores no fingerprint, or with no active plan at all, is never
\* suppressed, also when a plan deactivated since stores the very averages
\* of the analysis; its message is the state's own and, in an adjustment
\* state, the suggestion is there again.
C29_FingerprintPerPlanRow ==
    (Analyzed /\ ~HasFingerprint) =>
        /\ last.message # "already_adjusted"
        /\ last.message = last.analysis_state
        /\ last.is_stagnating = (last.analysis_state \in AdjustStates)
        /\ last.analysis_state \in AdjustStates =>
             /\ last.suggested_calorie_adjustment = Some(DeltaCalories(last.analysis_state))
             /\ last.suggested_carb_adjustment_g = Some(DeltaCarbs(last.analysis_state))
             /\ (last.new_target_calories # None) <=> (ActivePlan # None)

\* a suggestion under a new active plan, over the averages that the plan it
\* replaced has stored
C29_Witness ==
    /\ Analyzed /\ last.is_stagnating
    /\ ActivePlan # None /\ ~HasFingerprint
    /\ last.new_target_calories # None
    /\ \E j \in 1..Len(plans) :
          /\ ~plans[j].is_active
          /\ plans[j].last_coach_adjustment_at # None
          /\ plans[j].last_coach_w_curr = Some(last.current_week_avg_weight)
          /\ plans[j].last_coach_w_prev = Some(last.previous_week_avg_weight)

\* the fields of a result that the order of the fetched rows cannot reach:
\* all but the anchor weight, the three measurements and the stop signals
OrderFreeFields ==
    (DOMAIN last) \ {"anchor_weight_kg", "current_body_fat_percent", "raw_body_fat",
                     "waist_change_cm", "raw_waist_change",
                     "arm_change_cm", "raw_arm_change",
                     "suggest_cutting", "cutting_reasons"}

\* every list the query may return gives the last result in these fields
SameForEveryOrder(fields) ==
    \A all_logs \in FetchLogs(TheUser) :
        LET other == check_stagnation(all_logs, ActivePlanIds(TheUser))
        IN  /\ other.status = "ok"
            /\ \A f \in fields : other[f] = last[f]

\* C30: for fixed body logs and a fixed plan every field of the result,
\* anchor_weight_kg, current_body_fat_percent, waist_change_cm and
\* arm_change_cm included, is the same for every order in which the query,
\* ordered by date only, may return the rows that share a date.
C30_ResultIndependentOfOrder ==
    Analyzed => SameForEveryOrder(DOMAIN last)

====
